---- MODULE Spec2Model ----
(***************************************************************************)
(* Support chat of apnaadda_ind: the end-user SupportWidget                *)
(* (src/unnamed/part_002) and the operator's SupportManagement console     *)
(* (src/geminiService.ts), both clients of one document store.             *)
(*                                                                         *)
(* Store model.  A write issued by a client is queued (wq for the widget,  *)
(* cq for the console) and later either commits or is rejected; a client's *)
(* writes settle in the order it issued them, the two clients interleave   *)
(* freely.  The promise of a write settles in the step in which the write  *)
(* commits or is rejected, so the code that follows the await is part of   *)
(* that step.  Every commit advances the clock and stamps the new instant  *)
(* (serverTimestamp), so creation instants are distinct and serve as the   *)
(* document id of a message.  A subscription delivers a snapshot in a      *)
(* later step of its own, whenever its query result differs from the one   *)
(* it delivered last (and once initially, also when the result is empty).  *)
(*                                                                         *)
(* React model.  State updates of a handler or callback and the effects    *)
(* they trigger (cleanup and re-subscription) are one step.                *)
(***************************************************************************)
EXTENDS Integers, Sequences, FiniteSets, TLC

\* ------------------------------------------------------------ bounds
MaxTime == 6
MaxSends == 2
MaxReplies == 1
MaxUnread == 2
MaxMarks == 1
\* sends of the widget in the specifications that run the console or the
\* authentication beside it
MaxSendsBesideConsole == 1

\* ------------------------------------------------------------ values
None == "none"
\* the null of chatId and of selectedChat
NoChat == 0
\* the null of tempSystemMessage
NoTemp == <<>>
Users == {"u1", "u2"}
ChatIds == 1..MaxSends
\* what can be typed into an input box: characters, blank or not
Inputs == {<<" ">>, <<"a">>, <<" ", "b">>}

WelcomeText == <<"Hello! Welcome to APNA ADDA Support. How can we assist you today?">>
WelcomeBackText == <<"Welcome back! Let us know how we can help.">>
AutoReplyText == <<"Our agent will shortly assists you...">>

\* String.prototype.trim on a sequence of characters
RECURSIVE TrimLeft(_)
TrimLeft(s) ==
  IF s # <<>> /\ Head(s) = " " THEN TrimLeft(Tail(s)) ELSE s

RECURSIVE TrimRight(_)
TrimRight(s) ==
  IF s # <<>> /\ s[Len(s)] = " " THEN TrimRight(SubSeq(s, 1, Len(s) - 1)) ELSE s

Trim(s) == TrimRight(TrimLeft(s))

\* `Admin: ${replyText}`
AdminLabel(t) == <<"Admin: ">> \o t

Email(u) == u

VARIABLES
  \* the document store
  chats,                \* supportChats: chat id -> document (domain: existing documents)
  usedChatIds,          \* ids the store has handed out
  msgs,                 \* supportChats/{id}/messages: set of documents
  now,                  \* the clock: Date.now() and the server's instant
  \* SupportWidget
  user, isOpen, newMessage, chatId, messages, unreadCount, lastCheckedTimestamp,
  locInit, locLast, locEmpty,          \* Effect 1 subscription
  streamInit, streamLast,              \* Effect 2 subscription
  watchInit, watchSeen, watchCursor,   \* Effect 3 subscription
  streamSub, watchSub,                 \* the chat each of Effects 2 and 3 listens to, if any
  sends,                \* handleSubmit invocations, in submission order
  wq,                   \* the widget's writes that have not settled
  \* SupportManagement
  dirInit, dirLast,     \* the directory subscription and the chats it delivered
  selectedChat,
  adminMessages, feedInit,             \* the console's messages state and its subscription
  uncaught,             \* a rejected promise has escaped its handler
  replies,              \* handleSendReply invocations
  del,                  \* the handleDeleteChat invocation
  cq,                   \* the console's writes that have not settled
  \* notices (toasts) raised by the step just taken
  toasts

storeVars == <<chats, usedChatIds, msgs, now>>
subVars ==
  <<locInit, locLast, locEmpty, streamInit, streamLast, watchInit, watchSeen, watchCursor,
    streamSub, watchSub>>
widgetVars == <<user, isOpen, newMessage, chatId, messages, unreadCount, lastCheckedTimestamp, sends, wq>>
consoleVars == <<dirInit, dirLast, selectedChat, adminMessages, feedInit, uncaught, replies, del, cq>>
vars == <<storeVars, subVars, widgetVars, consoleVars, toasts>>

\* ------------------------------------------------------------ store
\* { id: doc.id, ...doc.data() } as ChatMessage
AsChatMessage(d) ==
  [id |-> <<"doc", d.timestamp>>, text |-> d.text, sender |-> d.sender, timestamp |-> d.timestamp]

MsgsOf(c) == {d \in msgs : d.chat = c}

Earliest(S) == CHOOSE d \in S : \A e \in S : d.timestamp <= e.timestamp

\* query(messagesRef, orderBy('timestamp')) of a set of message documents
RECURSIVE OrderByTimestamp(_)
OrderByTimestamp(S) ==
  IF S = {} THEN <<>>
  ELSE LET d == Earliest(S) IN <<AsChatMessage(d)>> \o OrderByTimestamp(S \ {d})

\* query(chatsRef, where("userId", "==", uid)): the ids, in document-id order
ChatsOf(u) == {c \in DOMAIN chats : chats[c].userId = u}

FirstId(S) == CHOOSE c \in S : \A e \in S : c <= e

\* query(messagesRef, where("timestamp", ">", cursor))
NewerThan(c, cursor) == {d \in MsgsOf(c) : d.timestamp > cursor}

ChatDoc(u, text, t) ==
  [userId |-> u, userEmail |-> Email(u), lastMessage |-> text, timestamp |-> t, status |-> "new"]

MsgDoc(c, text, who, t) == [chat |-> c, text |-> text, sender |-> who, timestamp |-> t]

WithChat(c, d) == [x \in DOMAIN chats \cup {c} |-> IF x = c THEN d ELSE chats[x]]

WithoutChat(c) == [x \in DOMAIN chats \ {c} |-> chats[x]]

\* ------------------------------------------------------------ SupportWidget: effects
\* Effect 2 subscribes: neither of its early returns is taken
StreamActive == chatId # NoChat /\ isOpen

\* a watcher that does not look at the visibility
WatchActiveAnyVisibility == chatId # NoChat

\* Effect 3 subscribes: its early return is not taken
WatchActive == chatId # NoChat /\ ~isOpen

\* Effects 2 and 3 share the dependencies [isOpen, chatId]: when one of them
\* changed in this step both clean up and run again
Effects23 ==
  IF isOpen' = isOpen /\ chatId' = chatId
  THEN UNCHANGED <<streamInit, streamLast, watchInit, watchSeen, watchCursor, streamSub, watchSub>>
  ELSE /\ streamSub' = IF StreamActive' THEN chatId' ELSE NoChat
       /\ streamInit' = StreamActive'
       /\ streamLast' = <<>>
       /\ watchSub' = IF WatchActive' THEN chatId' ELSE NoChat
       /\ watchInit' = WatchActive'
       /\ watchSeen' = {}
       /\ watchCursor' = IF WatchActive' THEN lastCheckedTimestamp' ELSE 0

\* the widget and the console as mounted, with no user signed in yet
Mounted ==
  /\ user = None /\ isOpen = FALSE /\ newMessage = <<>> /\ chatId = NoChat
  /\ messages = <<>> /\ unreadCount = 0 /\ lastCheckedTimestamp = now
  /\ locInit = FALSE /\ locLast = {} /\ locEmpty = TRUE
  /\ streamInit = FALSE /\ streamLast = <<>>
  /\ watchInit = FALSE /\ watchSeen = {} /\ watchCursor = 0
  /\ streamSub = NoChat /\ watchSub = NoChat
  /\ sends = <<>> /\ wq = <<>>
  /\ dirInit = TRUE /\ dirLast = <<>>
  /\ selectedChat = NoChat /\ replies = <<>>
  /\ adminMessages = <<>> /\ feedInit = FALSE /\ uncaught = FALSE
  /\ del = [pc |-> "idle", chat |-> NoChat, snap |-> {}, outcome |-> None,
            preChats |-> <<>>, preMsgs |-> {}, preSelected |-> NoChat]
  /\ cq = <<>>
  /\ toasts = <<>>

\* the application mounted over an empty store
Init ==
  /\ chats = <<>> /\ usedChatIds = {} /\ msgs = {} /\ now = 0
  /\ Mounted

\* the application mounted over the store an earlier visit of u1 left: the
\* conversation of a first-contact send of "a" (created at 1, the message at 2,
\* the update at 3, the auto-reply at 4)
InitReturning ==
  /\ chats = (1 :> [ChatDoc("u1", <<"a">>, 1) EXCEPT !.timestamp = 3])
  /\ usedChatIds = {1}
  /\ msgs = {MsgDoc(1, <<"a">>, "user", 2), MsgDoc(1, AutoReplyText, "system", 4)}
  /\ now = 4
  /\ Mounted

\* ------------------------------------------------------------ authentication
\* onAuthStateChanged delivers a signed-in user; Effect 1 runs for the new user and
\* its callback closes over the messages of this render
SignIn(u) ==
  /\ user = None
  /\ user' = u
  /\ locInit' = TRUE /\ locLast' = {} /\ locEmpty' = (messages = <<>>)
  /\ toasts' = <<>>
  /\ UNCHANGED <<storeVars, consoleVars>>
  /\ UNCHANGED <<isOpen, newMessage, chatId, messages, unreadCount, lastCheckedTimestamp, sends, wq>>
  /\ UNCHANGED <<streamInit, streamLast, watchInit, watchSeen, watchCursor, streamSub, watchSub>>

\* sign-out: Effect 1 cleans up and runs with no user
SignOut ==
  /\ user # None
  /\ user' = None
  /\ chatId' = NoChat
  /\ messages' = <<>>
  /\ locInit' = FALSE /\ locLast' = {} /\ locEmpty' = TRUE
  /\ toasts' = <<>>
  /\ UNCHANGED <<storeVars, consoleVars>>
  /\ UNCHANGED <<isOpen, newMessage, unreadCount, lastCheckedTimestamp, sends, wq>>
  /\ Effects23

\* ------------------------------------------------------------ SupportWidget: subscriptions
Greeting ==
  [id |-> <<"welcome-msg">>, text |-> WelcomeText, sender |-> "system", timestamp |-> now]

WelcomeBack ==
  [id |-> <<"welcome-back-msg">>, text |-> WelcomeBackText, sender |-> "system", timestamp |-> now]

\* Effect 1 callback
LocatorSnapshot ==
  /\ user # None
  /\ locInit \/ ChatsOf(user) # locLast
  /\ locInit' = FALSE
  /\ locLast' = ChatsOf(user)
  /\ IF ChatsOf(user) # {}
     THEN /\ chatId' = FirstId(ChatsOf(user))
          /\ UNCHANGED messages
     ELSE /\ chatId' = NoChat
          /\ messages' = IF locEmpty THEN <<Greeting>> ELSE messages
  /\ toasts' = <<>>
  /\ UNCHANGED <<storeVars, consoleVars, locEmpty>>
  /\ UNCHANGED <<user, isOpen, newMessage, unreadCount, lastCheckedTimestamp, sends, wq>>
  /\ Effects23

\* a callback that keeps the temporary entries of the list in front of a snapshot
StreamListKeepingTemps(snapshot) ==
  SelectSeq(messages, LAMBDA m : m.id[1] = "temp") \o snapshot

\* what the Effect 2 callback stores for a snapshot
StreamList(snapshot) == IF snapshot = <<>> THEN <<WelcomeBack>> ELSE snapshot

\* Effect 2 callback
StreamSnapshot ==
  /\ streamSub # NoChat
  /\ streamInit \/ OrderByTimestamp(MsgsOf(streamSub)) # streamLast
  /\ streamInit' = FALSE
  /\ streamLast' = OrderByTimestamp(MsgsOf(streamSub))
  /\ messages' = StreamList(OrderByTimestamp(MsgsOf(streamSub)))
  /\ toasts' = <<>>
  /\ UNCHANGED <<storeVars, consoleVars, locInit, locLast, locEmpty, watchInit, watchSeen, watchCursor>>
  /\ UNCHANGED <<streamSub, watchSub>>
  /\ UNCHANGED <<user, isOpen, newMessage, chatId, unreadCount, lastCheckedTimestamp, sends, wq>>

\* a watcher without the sender filter
NotifiedAnySender(added) == added

\* the documents of an Effect 3 snapshot that raise a notice: docChanges() of type
\* "added" whose sender is 'admin'
Notified(added) == {d \in added : d.sender = "admin"}

RECURSIVE ReplyToasts(_)
ReplyToasts(n) == IF n = 0 THEN <<>> ELSE <<"Agent has replied to your message.">> \o ReplyToasts(n - 1)

\* Effect 3 callback
WatcherSnapshot ==
  /\ watchSub # NoChat
  /\ watchInit \/ NewerThan(watchSub, watchCursor) # watchSeen
  /\ LET added == NewerThan(watchSub, watchCursor) \ watchSeen
         n == Cardinality(Notified(added))
     IN /\ unreadCount + n <= MaxUnread
        /\ unreadCount' = unreadCount + n
        /\ toasts' = ReplyToasts(n)
  /\ watchInit' = FALSE
  /\ watchSeen' = NewerThan(watchSub, watchCursor)
  /\ UNCHANGED <<storeVars, consoleVars, locInit, locLast, locEmpty, streamInit, streamLast, watchCursor>>
  /\ UNCHANGED <<streamSub, watchSub>>
  /\ UNCHANGED <<user, isOpen, newMessage, chatId, messages, lastCheckedTimestamp, sends, wq>>

\* ------------------------------------------------------------ SupportWidget: handlers
\* onChange of the input, which is rendered while the widget is open
SetNewMessage(t) ==
  /\ isOpen
  /\ newMessage # t
  /\ newMessage' = t
  /\ toasts' = <<>>
  /\ UNCHANGED <<storeVars, subVars, consoleVars>>
  /\ UNCHANGED <<user, isOpen, chatId, messages, unreadCount, lastCheckedTimestamp, sends, wq>>

\* an icon click that moves the cursor and keeps the counter
IconClickKeepsCount == <<unreadCount, IF ~isOpen THEN now ELSE lastCheckedTimestamp>>

\* what handleSupportIconClick leaves in (unreadCount, lastCheckedTimestamp.current)
IconClickReset == IF ~isOpen THEN <<0, now>> ELSE <<unreadCount, lastCheckedTimestamp>>

handleSupportIconClick ==
  IF user = None
  THEN /\ toasts' = <<>>     \* the login prompt opens
       /\ UNCHANGED <<storeVars, subVars, widgetVars, consoleVars>>
  ELSE /\ unreadCount' = IconClickReset[1]
       /\ lastCheckedTimestamp' = IconClickReset[2]
       /\ isOpen' = ~isOpen
       /\ toasts' = <<>>
       /\ UNCHANGED <<storeVars, consoleVars, locInit, locLast, locEmpty>>
       /\ UNCHANGED <<user, newMessage, chatId, messages, sends, wq>>
       /\ Effects23

\* a close button that also clears the list
CloseButtonClearing ==
  /\ isOpen
  /\ isOpen' = FALSE
  /\ messages' = <<>>
  /\ toasts' = <<>>
  /\ UNCHANGED <<storeVars, consoleVars, locInit, locLast, locEmpty>>
  /\ UNCHANGED <<user, newMessage, chatId, unreadCount, lastCheckedTimestamp, sends, wq>>
  /\ Effects23

\* the X button of the open widget: setIsOpen(false)
CloseButton ==
  /\ isOpen
  /\ isOpen' = FALSE
  /\ toasts' = <<>>
  /\ UNCHANGED <<storeVars, consoleVars, locInit, locLast, locEmpty>>
  /\ UNCHANGED <<user, newMessage, chatId, messages, unreadCount, lastCheckedTimestamp, sends, wq>>
  /\ Effects23

TempUserMessage(text) ==
  [id |-> <<"temp", now>>, text |-> text, sender |-> "user", timestamp |-> now]

TempSystemMessage ==
  [id |-> <<"temp", now + 1>>, text |-> AutoReplyText, sender |-> "system", timestamp |-> now]

\* the optimistic update of handleSubmit
Optimistic(list, isNewChat, text) ==
  IF isNewChat THEN <<TempUserMessage(text), TempSystemMessage>>
  ELSE Append(list, TempUserMessage(text))

\* the writes in another order: the auto-reply ahead of the end user's message
SendWritesReplyFirst(i, isNewChat) ==
  (IF isNewChat THEN <<[send |-> i, kind |-> "sys"]>> ELSE <<>>)
    \o <<[send |-> i, kind |-> "msg"], [send |-> i, kind |-> "upd"]>>

\* the writes handleSubmit starts once it has a chat id
SendWrites(i, isNewChat) ==
  <<[send |-> i, kind |-> "msg"], [send |-> i, kind |-> "upd"]>>
    \o (IF isNewChat THEN <<[send |-> i, kind |-> "sys"]>> ELSE <<>>)

\* a guard that looks at the text as typed
RejectsUntrimmed(text, u) == text = <<>> \/ u = None

\* the guard of handleSubmit: !newMessage.trim() || !user
Rejects(text, u) == Trim(text) = <<>> \/ u = None

\* handleSubmit of the form of the open widget, up to its first await
handleSubmit ==
  /\ isOpen
  /\ IF Rejects(newMessage, user)
     THEN /\ toasts' = <<>>
          /\ UNCHANGED <<storeVars, subVars, widgetVars, consoleVars>>
     ELSE /\ Len(sends) < MaxSends
          /\ LET text == Trim(newMessage)
                 isNewChat == chatId = NoChat
                 i == Len(sends) + 1
             IN /\ newMessage' = <<>>
                /\ messages' = Optimistic(messages, isNewChat, text)
                /\ sends' = Append(sends,
                     [user |-> user, text |-> text, isNewChat |-> isNewChat, chat |-> chatId,
                      tempUser |-> <<"temp", now>>,
                      tempSys |-> IF isNewChat THEN <<"temp", now + 1>> ELSE NoTemp,
                      pc |-> IF isNewChat THEN "creating" ELSE "writing",
                      left |-> IF isNewChat THEN 1 ELSE 2,
                      made |-> <<>>,
                      pre |-> messages])
                /\ wq' = IF isNewChat THEN Append(wq, [send |-> i, kind |-> "chat"])
                         ELSE wq \o SendWrites(i, FALSE)
          /\ toasts' = <<>>
          /\ UNCHANGED <<storeVars, subVars, consoleVars>>
          /\ UNCHANGED <<user, isOpen, chatId, unreadCount, lastCheckedTimestamp>>

\* the filter of the catch block of handleSubmit
Revert(list, s) ==
  SelectSeq(list, LAMBDA m : ~(m.id = s.tempUser \/ (s.tempSys # NoTemp /\ m.id = s.tempSys)))

\* addDoc(collection(db, 'supportChats'), chatData) resolves; handleSubmit goes on to
\* start its message writes
SendChatCreated ==
  /\ wq # <<>> /\ Head(wq).kind = "chat"
  /\ LET i == Head(wq).send IN
     \E c \in ChatIds \ usedChatIds :
       /\ now' = now + 1
       /\ chats' = WithChat(c, ChatDoc(sends[i].user, sends[i].text, now + 1))
       /\ usedChatIds' = usedChatIds \cup {c}
       /\ chatId' = c
       /\ sends' = [sends EXCEPT ![i].chat = c, ![i].pc = "writing",
                                 ![i].left = Len(SendWrites(i, sends[i].isNewChat)),
                                 ![i].made = Append(@, [kind |-> "chat", at |-> now + 1])]
       /\ wq' = Tail(wq) \o SendWrites(i, sends[i].isNewChat)
  /\ toasts' = <<>>
  /\ UNCHANGED <<msgs, consoleVars, locInit, locLast, locEmpty>>
  /\ UNCHANGED <<user, isOpen, newMessage, messages, unreadCount, lastCheckedTimestamp>>
  /\ Effects23

\* one promise of Promise.all(promises) resolves, having created the documents in
\* `made` (the record of what the invocation created, and when)
Resolved(i, created) ==
  [sends EXCEPT ![i].left = @ - 1,
                ![i].pc = IF @ = "writing" /\ sends[i].left = 1 THEN "done" ELSE @,
                ![i].made = @ \o created]

\* addDoc(messagesRef, ...) of the end-user message or of the auto-reply commits
SendMessageAdded ==
  /\ wq # <<>> /\ Head(wq).kind \in {"msg", "sys"}
  /\ LET i == Head(wq).send
         s == sends[i]
     IN /\ now' = now + 1
        /\ msgs' = msgs \cup
             {IF Head(wq).kind = "msg" THEN MsgDoc(s.chat, s.text, "user", now + 1)
              ELSE MsgDoc(s.chat, AutoReplyText, "system", now + 1)}
        /\ sends' = Resolved(i, <<[kind |-> IF Head(wq).kind = "msg" THEN "user" ELSE "system",
                                    at |-> now + 1]>>)
  /\ wq' = Tail(wq)
  /\ toasts' = <<>>
  /\ UNCHANGED <<chats, usedChatIds, subVars, consoleVars>>
  /\ UNCHANGED <<user, isOpen, newMessage, chatId, messages, unreadCount, lastCheckedTimestamp>>

\* an update of the conversation that leaves its status as it is
SendUpdateKeepingStatus(doc, text, t) == [doc EXCEPT !.lastMessage = text, !.timestamp = t]

\* the fields handleSubmit writes to the conversation
SendUpdate(doc, text, t) ==
  [doc EXCEPT !.lastMessage = text, !.timestamp = t, !.status = "new"]

\* updateDoc(doc(db, 'supportChats', currentChatId), ...) commits: the document exists
SendChatUpdated ==
  /\ wq # <<>> /\ Head(wq).kind = "upd"
  /\ LET i == Head(wq).send
         s == sends[i]
     IN /\ s.chat \in DOMAIN chats
        /\ now' = now + 1
        /\ chats' = [chats EXCEPT ![s.chat] = SendUpdate(@, s.text, now + 1)]
        /\ sends' = Resolved(i, <<>>)
  /\ wq' = Tail(wq)
  /\ toasts' = <<>>
  /\ UNCHANGED <<usedChatIds, msgs, subVars, consoleVars>>
  /\ UNCHANGED <<user, isOpen, newMessage, chatId, messages, unreadCount, lastCheckedTimestamp>>

\* a catch block that forgets the conversation the invocation created
ChatIdAfterCatchCleared(s) == IF s.isNewChat THEN NoChat ELSE chatId

\* the catch block of handleSubmit never calls setChatId
ChatIdAfterCatch(s) == chatId

\* a write of handleSubmit is rejected (an updateDoc of a missing document always is):
\* the first rejection of an invocation enters its catch block
SendWriteRejected ==
  /\ wq # <<>>
  /\ LET i == Head(wq).send
         s == sends[i]
     IN IF s.pc \in {"creating", "writing"}
        THEN /\ toasts' = <<"Failed to send message.">>
             /\ messages' = Revert(messages, s)
             /\ sends' = [sends EXCEPT ![i].pc = "failed", ![i].left = @ - 1]
        ELSE /\ toasts' = <<>>
             /\ sends' = [sends EXCEPT ![i].left = @ - 1]
             /\ UNCHANGED messages
  /\ chatId' = ChatIdAfterCatch(sends[Head(wq).send])
  /\ wq' = Tail(wq)
  /\ UNCHANGED <<storeVars, subVars, consoleVars>>
  /\ UNCHANGED <<user, isOpen, newMessage, unreadCount, lastCheckedTimestamp>>

\* time passes
Tick ==
  /\ now < MaxTime
  /\ now' = now + 1
  /\ toasts' = <<>>
  /\ UNCHANGED <<chats, usedChatIds, msgs, subVars, widgetVars, consoleVars>>

\* ------------------------------------------------------------ SupportManagement
\* what the console uses of a directory snapshot: the ids and each chat's status
Directory == [c \in DOMAIN chats |-> [status |-> chats[c].status]]

\* the callback of the directory subscription: setChats(snapshot.docs...)
DirectorySnapshot ==
  /\ dirInit \/ Directory # dirLast
  /\ dirInit' = FALSE
  /\ dirLast' = Directory
  /\ toasts' = <<>>
  /\ UNCHANGED <<storeVars, subVars, widgetVars, selectedChat, replies, del, cq>>
  /\ UNCHANGED <<adminMessages, feedInit, uncaught>>

Marks == Cardinality({k \in 1..Len(cq) : cq[k].op = "select"})

\* handleSelectChat(chat) for a chat of the rendered directory, up to its await
handleSelectChat(c) ==
  /\ c \in DOMAIN dirLast
  /\ selectedChat' = c
  /\ IF dirLast[c].status = "new"
     THEN /\ Marks < MaxMarks
          /\ cq' = Append(cq, [op |-> "select", kind |-> "upd", ref |-> c])
     ELSE UNCHANGED cq
  /\ feedInit' = TRUE     \* the messages effect runs for the chat object selected
  /\ toasts' = <<>>
  /\ UNCHANGED <<storeVars, subVars, widgetVars, dirInit, dirLast, replies, del>>
  /\ UNCHANGED <<adminMessages, uncaught>>

\* a status write that also overwrites the last-message text
SelectUpdateClearingText(doc) == [doc EXCEPT !.status = "read", !.lastMessage = <<>>]

\* the fields written by handleSelectChat: { status: 'read' }
SelectUpdate(doc) == [doc EXCEPT !.status = "read"]

\* updateDoc(doc(db, 'supportChats', chat.id), { status: 'read' }) commits
SelectMarked ==
  /\ cq # <<>> /\ Head(cq).op = "select"
  /\ Head(cq).ref \in DOMAIN chats
  /\ chats' = [chats EXCEPT ![Head(cq).ref] = SelectUpdate(@)]
  /\ cq' = Tail(cq)
  /\ toasts' = <<>>
  /\ UNCHANGED <<usedChatIds, msgs, now, subVars, widgetVars, dirInit, dirLast, selectedChat, replies, del>>
  /\ UNCHANGED <<adminMessages, feedInit, uncaught>>

\* the same write is rejected; handleSelectChat has no catch block
SelectRejected ==
  /\ cq # <<>> /\ Head(cq).op = "select"
  /\ cq' = Tail(cq)
  /\ uncaught' = TRUE
  /\ toasts' = <<>>
  /\ UNCHANGED <<storeVars, subVars, widgetVars, dirInit, dirLast, selectedChat, replies, del>>
  /\ UNCHANGED <<adminMessages, feedInit>>

\* the callback of the messages subscription of the selected chat: setMessages(...)
AdminFeedSnapshot ==
  /\ selectedChat # NoChat
  /\ feedInit \/ OrderByTimestamp(MsgsOf(selectedChat)) # adminMessages
  /\ feedInit' = FALSE
  /\ adminMessages' = OrderByTimestamp(MsgsOf(selectedChat))
  /\ toasts' = <<>>
  /\ UNCHANGED <<storeVars, subVars, widgetVars, dirInit, dirLast, selectedChat, uncaught, replies, del, cq>>

\* handleSendReply of the reply form, up to its first await
handleSendReply(raw) ==
  IF Trim(raw) = <<>> \/ selectedChat = NoChat
  THEN /\ toasts' = <<>>
       /\ UNCHANGED <<storeVars, subVars, widgetVars, consoleVars>>
  ELSE /\ Len(replies) < MaxReplies
       /\ replies' = Append(replies, [chat |-> selectedChat, text |-> Trim(raw), pc |-> "adding"])
       /\ cq' = Append(cq, [op |-> "reply", kind |-> "add", ref |-> Len(replies) + 1])
       /\ toasts' = <<>>
       /\ UNCHANGED <<storeVars, subVars, widgetVars, dirInit, dirLast, selectedChat, del>>
       /\ UNCHANGED <<adminMessages, feedInit, uncaught>>

\* addDoc of the reply commits; handleSendReply goes on to its updateDoc
ReplyAdded ==
  /\ cq # <<>> /\ Head(cq).op = "reply" /\ Head(cq).kind = "add"
  /\ LET i == Head(cq).ref IN
     /\ now' = now + 1
     /\ msgs' = msgs \cup {MsgDoc(replies[i].chat, replies[i].text, "admin", now + 1)}
     /\ replies' = [replies EXCEPT ![i].pc = "updating"]
     /\ cq' = Append(Tail(cq), [op |-> "reply", kind |-> "upd", ref |-> i])
  /\ toasts' = <<>>
  /\ UNCHANGED <<chats, usedChatIds, subVars, widgetVars, dirInit, dirLast, selectedChat, del>>
  /\ UNCHANGED <<adminMessages, feedInit, uncaught>>

\* an update that marks the conversation new, as the end user's does
ReplyUpdateMarkingNew(doc, text, t) ==
  [doc EXCEPT !.lastMessage = AdminLabel(text), !.timestamp = t, !.status = "new"]

\* the fields handleSendReply writes to the conversation
ReplyUpdate(doc, text, t) == [doc EXCEPT !.lastMessage = AdminLabel(text), !.timestamp = t]

\* updateDoc of the reply commits: the document exists
ReplyUpdated ==
  /\ cq # <<>> /\ Head(cq).op = "reply" /\ Head(cq).kind = "upd"
  /\ LET i == Head(cq).ref
         c == replies[i].chat
     IN /\ c \in DOMAIN chats
        /\ now' = now + 1
        /\ chats' = [chats EXCEPT ![c] = ReplyUpdate(@, replies[i].text, now + 1)]
        /\ replies' = [replies EXCEPT ![i].pc = "done"]
  /\ cq' = Tail(cq)
  /\ toasts' = <<>>
  /\ UNCHANGED <<usedChatIds, msgs, subVars, widgetVars, dirInit, dirLast, selectedChat, del>>
  /\ UNCHANGED <<adminMessages, feedInit, uncaught>>

\* a write of handleSendReply is rejected: its catch block
ReplyRejected ==
  /\ cq # <<>> /\ Head(cq).op = "reply"
  /\ replies' = [replies EXCEPT ![Head(cq).ref].pc = "failed"]
  /\ cq' = Tail(cq)
  /\ toasts' = <<"Failed to send reply.">>
  /\ UNCHANGED <<storeVars, subVars, widgetVars, dirInit, dirLast, selectedChat, del>>
  /\ UNCHANGED <<adminMessages, feedInit, uncaught>>

\* handleDeleteChat, confirmed in the modal, up to getDocs; one run at a time
handleDeleteChat ==
  /\ del.pc = "idle"
  /\ selectedChat # NoChat
  /\ del' = [pc |-> "listing", chat |-> selectedChat, snap |-> {}, outcome |-> None,
             preChats |-> chats, preMsgs |-> MsgsOf(selectedChat), preSelected |-> selectedChat]
  /\ toasts' = <<>>
  /\ UNCHANGED <<storeVars, subVars, widgetVars, dirInit, dirLast, selectedChat, replies, cq>>
  /\ UNCHANGED <<adminMessages, feedInit, uncaught>>

\* getDocs(messagesRef) resolves; the batch of deletions is built and committed
DeleteListed ==
  /\ del.pc = "listing"
  /\ del' = [del EXCEPT !.pc = "batching", !.snap = MsgsOf(del.chat)]
  /\ cq' = Append(cq, [op |-> "delete", kind |-> "batch", ref |-> del.chat])
  /\ toasts' = <<>>
  /\ UNCHANGED <<storeVars, subVars, widgetVars, dirInit, dirLast, selectedChat, replies>>
  /\ UNCHANGED <<adminMessages, feedInit, uncaught>>

\* the catch block of handleDeleteChat
DeleteCaught == [del EXCEPT !.pc = "idle", !.outcome = "failed"]

\* getDocs(messagesRef) rejects
DeleteListFailed ==
  /\ del.pc = "listing"
  /\ del' = DeleteCaught
  /\ toasts' = <<"Failed to delete chat.">>
  /\ UNCHANGED <<storeVars, subVars, widgetVars, dirInit, dirLast, selectedChat, replies, cq>>
  /\ UNCHANGED <<adminMessages, feedInit, uncaught>>

\* batch.commit() commits: the enumerated messages are deleted together;
\* handleDeleteChat goes on to deleteDoc
DeleteBatchCommitted ==
  /\ cq # <<>> /\ Head(cq).op = "delete" /\ Head(cq).kind = "batch"
  /\ msgs' = msgs \ del.snap
  /\ del' = [del EXCEPT !.pc = "deleting"]
  /\ cq' = Append(Tail(cq), [op |-> "delete", kind |-> "doc", ref |-> del.chat])
  /\ toasts' = <<>>
  /\ UNCHANGED <<chats, usedChatIds, now, subVars, widgetVars, dirInit, dirLast, selectedChat, replies>>
  /\ UNCHANGED <<adminMessages, feedInit, uncaught>>

\* deleteDoc(doc(db, 'supportChats', selectedChat.id)) commits; the run reports success
DeleteDocCommitted ==
  /\ cq # <<>> /\ Head(cq).op = "delete" /\ Head(cq).kind = "doc"
  /\ chats' = WithoutChat(del.chat)
  /\ del' = [del EXCEPT !.pc = "idle", !.outcome = "success"]
  /\ selectedChat' = NoChat
  /\ adminMessages' = <<>> /\ feedInit' = FALSE     \* the messages effect runs with no chat
  /\ cq' = Tail(cq)
  /\ toasts' = <<"Chat deleted successfully.">>
  /\ UNCHANGED <<usedChatIds, msgs, now, subVars, widgetVars, dirInit, dirLast, replies, uncaught>>

\* batch.commit() or deleteDoc is rejected
DeleteWriteRejected ==
  /\ cq # <<>> /\ Head(cq).op = "delete"
  /\ del' = DeleteCaught
  /\ cq' = Tail(cq)
  /\ toasts' = <<"Failed to delete chat.">>
  /\ UNCHANGED <<storeVars, subVars, widgetVars, dirInit, dirLast, selectedChat, replies>>
  /\ UNCHANGED <<adminMessages, feedInit, uncaught>>

\* ------------------------------------------------------------ specifications
WidgetStep ==
  \/ \E u \in Users : SignIn(u)
  \/ SignOut
  \/ LocatorSnapshot
  \/ StreamSnapshot
  \/ WatcherSnapshot
  \/ \E t \in Inputs : SetNewMessage(t)
  \/ handleSupportIconClick
  \/ CloseButton
  \/ handleSubmit
  \/ SendChatCreated
  \/ SendMessageAdded
  \/ SendChatUpdated
  \/ SendWriteRejected

ConsoleStep ==
  \/ DirectorySnapshot
  \/ AdminFeedSnapshot
  \/ \E c \in ChatIds : handleSelectChat(c)
  \/ SelectMarked
  \/ SelectRejected
  \/ \E raw \in Inputs : handleSendReply(raw)
  \/ ReplyAdded
  \/ ReplyUpdated
  \/ ReplyRejected
  \/ handleDeleteChat
  \/ DeleteListed
  \/ DeleteListFailed
  \/ DeleteBatchCommitted
  \/ DeleteDocCommitted
  \/ DeleteWriteRejected

Next == WidgetStep \/ ConsoleStep \/ Tick

Spec == Init /\ [][Next]_vars

\* The scenarios below take their steps from Next.  Typed is the text the end
\* user types in them.
Typed == {<<" ", "b">>}

\* the end user alone: first contact and later sends, over an empty store
NextSend ==
  \/ SignIn("u1")
  \/ LocatorSnapshot
  \/ StreamSnapshot
  \/ handleSupportIconClick
  \/ \E t \in Typed : SetNewMessage(t)
  \/ handleSubmit
  \/ SendChatCreated
  \/ SendMessageAdded
  \/ SendChatUpdated
  \/ SendWriteRejected

SpecSend == Init /\ [][NextSend]_vars

\* the operator erasing the conversation of a returning user who may send into it
NextErase ==
  \/ SignIn("u1")
  \/ LocatorSnapshot
  \/ handleSupportIconClick
  \/ \E t \in Typed : SetNewMessage(t)
  \/ (Len(sends) < MaxSendsBesideConsole /\ handleSubmit)
  \/ SendMessageAdded
  \/ SendChatUpdated
  \/ SendWriteRejected
  \/ DirectorySnapshot
  \/ \E c \in ChatIds : handleSelectChat(c)
  \/ SelectMarked
  \/ SelectRejected
  \/ handleDeleteChat
  \/ DeleteListed
  \/ DeleteListFailed
  \/ DeleteBatchCommitted
  \/ DeleteDocCommitted
  \/ DeleteWriteRejected

SpecErase == InitReturning /\ [][NextErase]_vars

\* a returning user who opens and closes the widget, signs out and in, and may
\* send, while the operator replies
NextUnread ==
  \/ SignIn("u1")
  \/ SignOut
  \/ LocatorSnapshot
  \/ StreamSnapshot
  \/ WatcherSnapshot
  \/ handleSupportIconClick
  \/ CloseButton
  \/ \E t \in Typed : SetNewMessage(t)
  \/ (Len(sends) < MaxSendsBesideConsole /\ handleSubmit)
  \/ SendMessageAdded
  \/ SendChatUpdated
  \/ DirectorySnapshot
  \/ \E c \in ChatIds : handleSelectChat(c)
  \/ SelectMarked
  \/ \E raw \in Inputs : handleSendReply(raw)
  \/ ReplyAdded
  \/ ReplyUpdated

SpecUnread == InitReturning /\ [][NextUnread]_vars

\* ------------------------------------------------------------ claims
Sent == 1..Len(sends)

InFlight(i) == sends[i].pc \in {"creating", "writing"}

\* C1: Rollback law.  Whenever the durable write of a send fails, the in-memory
\* message list left by the failure handling equals the list as it was immediately
\* before that send was submitted.
RollbackLaw ==
  [][\A i \in Sent : (InFlight(i) /\ sends'[i].pc = "failed") => messages' = sends[i].pre]_vars

\* C2: At most one conversation per user.  In every reachable state the store holds
\* at most one conversation record for any owning-user id.
OneConversationPerUser == \A u \in Users : Cardinality(ChatsOf(u)) <= 1

\* the Message Stream is subscribed and has delivered the current history
StreamUpToDate ==
  StreamActive /\ ~streamInit /\ streamLast = OrderByTimestamp(MsgsOf(chatId))

\* send i succeeded into the resolved conversation, which holds its message
Confirmed(i) ==
  /\ sends[i].pc = "done"
  /\ sends[i].chat = chatId
  /\ \E d \in MsgsOf(chatId) : d.sender = "user" /\ d.text = sends[i].text

\* C3: Optimistic-then-confirmed convergence.  After a send whose writes all
\* succeeded, once the Message Stream has delivered the resulting snapshot to the
\* visible widget and no other send is in flight, the in-memory list is exactly the
\* durable history of the resolved conversation in creation order, and holds no
\* temporary-id entry.
Convergence ==
  (StreamUpToDate /\ (\A i \in Sent : ~InFlight(i)) /\ (\E i \in Sent : Confirmed(i)))
    => /\ messages = OrderByTimestamp(MsgsOf(chatId))
       /\ \A k \in 1..Len(messages) : messages[k].id[1] = "doc"

ConvergenceWitness ==
  /\ StreamUpToDate
  /\ \A i \in Sent : ~InFlight(i)
  /\ \E i \in Sent : Confirmed(i) /\ sends[i].isNewChat
  /\ \E i \in Sent : Confirmed(i) /\ ~sends[i].isNewChat
  /\ Len(messages) = 3

Kinds(made) == [k \in 1..Len(made) |-> made[k].kind]

\* C4: First-contact round trip.  A successful send with no prior conversation
\* created exactly one conversation, one end-user message and one auto-reply under
\* it, at strictly increasing instants in that order.
FirstContactRoundTrip ==
  \A i \in Sent :
    (sends[i].isNewChat /\ sends[i].pc = "done") =>
      LET made == sends[i].made IN
      /\ Kinds(made) = <<"chat", "user", "system">>
      /\ made[1].at < made[2].at /\ made[2].at < made[3].at
      /\ sends[i].chat \in DOMAIN chats
      /\ chats[sends[i].chat].userId = sends[i].user
      /\ MsgDoc(sends[i].chat, sends[i].text, "user", made[2].at) \in msgs
      /\ MsgDoc(sends[i].chat, AutoReplyText, "system", made[3].at) \in msgs

FirstContactWitness == \E i \in Sent : sends[i].isNewChat /\ sends[i].pc = "done"

Erasing == del.pc \in {"listing", "batching", "deleting"}

\* C5: Deletion is all-or-nothing to observers.  During a run of handleDeleteChat no
\* store state has the conversation's messages deleted while its record exists, nor
\* the record deleted while messages of it exist.
DeletionAllOrNothing ==
  Erasing =>
    /\ ~(del.preMsgs # {} /\ MsgsOf(del.chat) = {} /\ del.chat \in DOMAIN chats)
    /\ ~(del.chat \notin DOMAIN chats /\ MsgsOf(del.chat) # {})

\* C6: Deletion failure leaves the starting state.  When a run of handleDeleteChat
\* fails, the conversation record and each of its messages are still there as before
\* the attempt, the selection is unchanged and an error notice is raised.
DeletionFailureKeepsAll ==
  [][(Erasing /\ del'.pc = "idle" /\ del'.outcome = "failed") =>
       /\ del.chat \in DOMAIN del.preChats => del.chat \in DOMAIN chats'
       /\ del.preMsgs \subseteq msgs'
       /\ selectedChat' = selectedChat
       /\ toasts' = <<"Failed to delete chat.">>]_vars

\* C7: Deletion success postcondition.  When a run of handleDeleteChat reports
\* success, the store holds neither the conversation record nor any message under
\* its id, and the selection is cleared.
DeletionSuccessEmpties ==
  [][(Erasing /\ del'.pc = "idle" /\ del'.outcome = "success") =>
       /\ del.chat \notin DOMAIN chats'
       /\ {d \in msgs' : d.chat = del.chat} = {}
       /\ selectedChat' = NoChat]_vars

\* the Notification Watcher is subscribed and has delivered everything it matches
WatcherUpToDate ==
  WatchActive /\ ~watchInit /\ watchSeen = NewerThan(chatId, watchCursor)

\* C8: Unread Counter value.  In a hidden period with a resolved conversation, once
\* the watcher has delivered what it matches, the counter is the number of operator
\* messages of the conversation created after the cursor held since the period began.
UnreadCounterValue ==
  WatcherUpToDate =>
    unreadCount = Cardinality({d \in MsgsOf(chatId) :
                                 d.sender = "admin" /\ d.timestamp > lastCheckedTimestamp})

\* C9: Reset on open.  Every step that takes the widget from hidden to visible sets
\* the counter to 0 and the cursor to the current instant, and the Message Stream of
\* the visible period has delivered nothing yet in the state that step leads to.
ResetOnOpen ==
  [][(~isOpen /\ isOpen') =>
       /\ unreadCount' = 0
       /\ lastCheckedTimestamp' = now'
       /\ lastCheckedTimestamp' >= lastCheckedTimestamp
       /\ streamInit' = (chatId' # NoChat) /\ streamLast' = <<>>
       /\ ~watchInit'
       /\ messages' = messages]_vars

\* the widget has just been opened over a conversation that holds an operator
\* message created after the widget was mounted
ResetOnOpenWitness ==
  /\ isOpen /\ streamInit /\ unreadCount = 0 /\ lastCheckedTimestamp = now
  /\ \E d \in MsgsOf(chatId) : d.sender = "admin"

\* the number of new-reply notices among the notices of a step
ReplyNotices(ts) ==
  Cardinality({k \in 1..Len(ts) : ts[k] = "Agent has replied to your message."})

\* C10: Sender-role filter.  A step changes the counter only by opening the widget
\* or by delivering operator messages to the watcher: it then adds exactly the number
\* of operator messages delivered and raises as many new-reply notices; delivered
\* end-user and system messages add nothing and raise nothing.
SenderRoleFilter ==
  [][LET delivered == IF chatId' = chatId /\ isOpen' = isOpen THEN watchSeen' \ watchSeen ELSE {}
         operator == {d \in delivered : d.sender = "admin"}
     IN /\ (~isOpen /\ isOpen') \/ unreadCount' = unreadCount + Cardinality(operator)
        /\ ReplyNotices(toasts') = Cardinality(operator)]_vars

\* the watcher has been delivered an end-user message and an operator message and
\* counted one
SenderRoleFilterWitness ==
  /\ WatcherUpToDate
  /\ \E d \in watchSeen : d.sender = "user"
  /\ \E d \in watchSeen : d.sender = "admin"
  /\ unreadCount = 1

\* C11: No double count.  Each operator message increments the Unread Counter at
\* most once, so the counter never exceeds the number of operator messages in the
\* store (the scenario deletes none).
NoDoubleCount == unreadCount <= Cardinality({d \in msgs : d.sender = "admin"})

\* the end user signing in and out around a send, over an empty store
NextSession ==
  \/ SignIn("u1")
  \/ SignOut
  \/ LocatorSnapshot
  \/ StreamSnapshot
  \/ handleSupportIconClick
  \/ \E t \in Inputs : SetNewMessage(t)
  \/ (Len(sends) < MaxSendsBesideConsole /\ handleSubmit)
  \/ SendChatCreated
  \/ SendMessageAdded
  \/ SendChatUpdated
  \/ SendWriteRejected

SpecSession == Init /\ [][NextSession]_vars

\* C12: Sign-out teardown.  In every state in which no user is signed in, the
\* resolved conversation id is unresolved, the in-memory list is empty and neither
\* the Chat Locator, the Message Stream nor the Notification Watcher is subscribed
\* or has a delivery pending.
SignOutTeardown ==
  user = None =>
    /\ chatId = NoChat
    /\ messages = <<>>
    /\ streamSub = NoChat /\ watchSub = NoChat
    /\ ~locInit /\ ~streamInit /\ ~watchInit

\* C13: Subscription gating.  In every reachable state the Message Stream is
\* subscribed exactly when a conversation id is resolved and the widget is visible,
\* the Notification Watcher exactly when a conversation id is resolved and the widget
\* is hidden, each to the resolved conversation, and never both.
SubscriptionGating ==
  /\ (streamSub # NoChat) <=> (chatId # NoChat /\ isOpen)
  /\ (watchSub # NoChat) <=> (chatId # NoChat /\ ~isOpen)
  /\ streamSub \in {NoChat, chatId} /\ watchSub \in {NoChat, chatId}
  /\ ~(streamSub # NoChat /\ watchSub # NoChat)
  /\ streamInit => streamSub # NoChat
  /\ watchInit => watchSub # NoChat

\* the watcher is subscribed in a hidden period that follows a visible one in which
\* the stream delivered the history
SubscriptionGatingWitness ==
  /\ watchSub # NoChat /\ ~isOpen
  /\ \E k \in 1..Len(messages) : messages[k].id[1] = "doc"

\* C14: Idempotent selection.  handleSelectChat issues a status write only for a
\* conversation whose stored status is new: selecting a conversation that is read
\* issues no write, and repeated selections issue one write per new-to-read
\* transition.
IdempotentSelection ==
  [][(Len(cq') > Len(cq) /\ cq'[Len(cq')].op = "select") =>
       LET c == cq'[Len(cq')].ref IN c \in DOMAIN chats => chats[c].status = "new"]_vars

\* the step in which the conversation update of a send commits
SendUpdateCommits == wq # <<>> /\ Head(wq).kind = "upd" /\ wq' = Tail(wq) /\ now' # now

\* C15: End-user send marks the conversation new.  A send carries the trimmed text
\* that was typed, and the step in which its conversation update commits leaves the
\* conversation with status new and that text as last-message text, whatever the
\* status was before.
SendMarksNew ==
  [][/\ Len(sends') > Len(sends) =>
          sends'[Len(sends')].text = Trim(newMessage) /\ Trim(newMessage) # <<>>
     /\ SendUpdateCommits =>
          LET s == sends[Head(wq).send] IN
          /\ chats'[s.chat].status = "new"
          /\ chats'[s.chat].lastMessage = s.text]_vars

\* a send into a conversation the operator had marked read has completed
SendMarksNewWitness ==
  \E i \in Sent :
    /\ sends[i].pc = "done" /\ ~sends[i].isNewChat
    /\ sends[i].chat \in DOMAIN dirLast /\ dirLast[sends[i].chat].status = "read"
    /\ chats[sends[i].chat].status = "new"
    /\ chats[sends[i].chat].lastMessage = sends[i].text

\* the operator reading and answering the conversation of a returning user who may
\* send into it
NextReply ==
  \/ SignIn("u1")
  \/ LocatorSnapshot
  \/ handleSupportIconClick
  \/ \E t \in Typed : SetNewMessage(t)
  \/ (Len(sends) < MaxSendsBesideConsole /\ handleSubmit)
  \/ SendMessageAdded
  \/ SendChatUpdated
  \/ DirectorySnapshot
  \/ \E c \in ChatIds : handleSelectChat(c)
  \/ SelectMarked
  \/ SelectRejected
  \/ AdminFeedSnapshot
  \/ \E raw \in Inputs : handleSendReply(raw)
  \/ ReplyAdded
  \/ ReplyUpdated
  \/ ReplyRejected

SpecReply == InitReturning /\ [][NextReply]_vars

\* a write of handleSendReply commits (a commit stamps a new instant)
ReplyCommits(kind) ==
  cq # <<>> /\ Head(cq).op = "reply" /\ Head(cq).kind = kind /\ cq' # cq /\ now' # now

\* C16: Operator reply leaves status alone.  A reply carries a trimmed, non-empty
\* text for the selected conversation; the commit of its message adds exactly one
\* operator message with that text to that conversation; the commit of its update
\* sets the last-message text to "Admin: " followed by the text and keeps the status;
\* and neither the handler nor its writes touch the console's in-memory list.
ReplyLeavesStatus ==
  [][/\ Len(replies') > Len(replies) =>
          LET r == replies'[Len(replies')] IN
          /\ r.chat = selectedChat /\ r.text = Trim(r.text) /\ r.text # <<>>
          /\ adminMessages' = adminMessages /\ UNCHANGED <<chats, msgs>>
     /\ ReplyCommits("add") =>
          LET r == replies[Head(cq).ref] IN
          /\ \E d \in msgs' \ msgs :
               /\ msgs' = msgs \cup {d}
               /\ d.chat = r.chat /\ d.sender = "admin" /\ d.text = r.text
          /\ adminMessages' = adminMessages /\ chats' = chats
     /\ ReplyCommits("upd") =>
          LET r == replies[Head(cq).ref] IN
          /\ chats'[r.chat].lastMessage = <<"Admin: ">> \o r.text
          /\ chats'[r.chat].status = chats[r.chat].status
          /\ adminMessages' = adminMessages /\ msgs' = msgs]_vars

\* a reply to a conversation marked read has completed and its message has reached
\* the console's list through the subscription
ReplyLeavesStatusWitness ==
  \E i \in 1..Len(replies) :
    /\ replies[i].pc = "done"
    /\ replies[i].chat \in DOMAIN chats
    /\ chats[replies[i].chat].status = "read"
    /\ chats[replies[i].chat].lastMessage = <<"Admin: ">> \o replies[i].text
    /\ \E k \in 1..Len(adminMessages) : adminMessages[k].sender = "admin"

\* the temporary-id entries of a list
Temps(list) == SelectSeq(list, LAMBDA m : m.id[1] = "temp")

\* C17: Validation reject.  While the input is empty or blank, or no user is signed
\* in, no step accepts a send: no send is recorded, no optimistic entry is added, no
\* write is queued, the input is not cleared, and no notice of a send is raised
\* unless an earlier send fails.
ValidationReject ==
  [][(Trim(newMessage) = <<>> \/ user = None) =>
       /\ Len(sends') = Len(sends)
       /\ Len(Temps(messages')) <= Len(Temps(messages))
       /\ \A k \in 1..Len(wq') : wq'[k].send \in Sent
       /\ newMessage' = <<>> => newMessage = <<>>
       /\ toasts' # <<>> => \E i \in Sent : InFlight(i) /\ sends'[i].pc = "failed"]_vars

\* the open widget of a signed-in user holds a blank, non-empty input
ValidationRejectWitness == isOpen /\ user # None /\ newMessage = <<" ">> /\ sends = <<>>

\* C18: No uncaught failure.  No reachable state has the failure of a durable write
\* propagated uncaught out of the operation that issued it.
NoUncaughtFailure == ~uncaught

\* the number of entries a send inserts into the list
Inserted(i) == IF sends[i].isNewChat THEN 2 ELSE 1

\* C19: Rollback removes exactly its own entries.  When a send fails, the rollback
\* removes at most the entries that send inserted, and every entry delivered by the
\* Message Stream stays in the list in its place.
RollbackOwnEntries ==
  [][\A i \in Sent :
       (InFlight(i) /\ sends'[i].pc = "failed") =>
         /\ Len(messages) - Len(messages') <= Inserted(i)
         /\ SelectSeq(messages', LAMBDA m : m.id[1] # "temp")
              = SelectSeq(messages, LAMBDA m : m.id[1] # "temp")]_vars

\* C20: Independent concurrent sends.  When a send is submitted while another is
\* still in flight, its optimistic update keeps every entry the list held and adds
\* its own after them, and it queues its own durable writes.
IndependentSends ==
  [][(Len(sends') > Len(sends) /\ \E i \in Sent : InFlight(i)) =>
       /\ Len(messages') > Len(messages)
       /\ SubSeq(messages', 1, Len(messages)) = messages
       /\ \E k \in 1..Len(wq') : wq'[k].send = Len(sends')]_vars

\* the step in which the Chat Locator delivers an empty result
LocatorDeliversEmpty ==
  /\ user # None /\ user' = user
  /\ locInit \/ locLast' # locLast
  /\ ~locInit' /\ locLast' = {}

\* C21: Greeting only into an empty list.  When the Chat Locator delivers an empty
\* result, a non-empty in-memory list is left unchanged, and an empty one receives
\* the single synthesized greeting.
GreetingOnlyIntoEmpty ==
  [][LocatorDeliversEmpty =>
       IF messages = <<>>
       THEN Len(messages') = 1 /\ messages'[1].id = <<"welcome-msg">>
       ELSE messages' = messages]_vars

\* chat c is the resolved conversation and, if stored, belongs to the signed-in user
Current(c) ==
  /\ user # None
  /\ c = chatId
  /\ c \in DOMAIN chats => chats[c].userId = user

\* C22: Stale subscriptions are silent.  Whenever the Message Stream or the
\* Notification Watcher is subscribed, it is subscribed to the currently resolved
\* conversation of the currently signed-in user.
SubscriptionsCurrent ==
  /\ streamSub # NoChat => Current(streamSub)
  /\ watchSub # NoChat => Current(watchSub)

\* the scenario of SpecUnread with sends that can fail
NextHide == NextUnread \/ SendWriteRejected

SpecHide == InitReturning /\ [][NextHide]_vars

\* the step in which send i enters its failure handling
Fails(i) == InFlight(i) /\ sends'[i].pc = "failed"

\* the step is a callback of the Notification Watcher
WatcherDelivers == watchSub # NoChat /\ watchSub' = watchSub /\ (watchInit # watchInit' \/ watchSeen' # watchSeen)

\* C23 as stated: closing the widget leaves the in-memory list unchanged, and the
\* list stays unchanged for the whole hidden period that follows (here: while the
\* same user stays signed in).
HiddenListUnchanged ==
  [][/\ (isOpen /\ ~isOpen') => messages' = messages
     /\ (~isOpen /\ ~isOpen' /\ sends # <<>> /\ user' = user) => messages' = messages]_vars

\* C23, amended: closing the widget leaves the in-memory list unchanged, callbacks
\* of the Notification Watcher leave it unchanged, and while the widget is hidden the
\* list changes only by a sign-out (cleared), by the rollback of a send that fails,
\* or by the Chat Locator delivering an empty result.
HideShowPreserves ==
  [][/\ (isOpen /\ ~isOpen') => messages' = messages
     /\ WatcherDelivers => messages' = messages
     /\ (~isOpen /\ ~isOpen' /\ messages' # messages) =>
          \/ user # None /\ user' = None /\ messages' = <<>>
          \/ \E i \in Sent : Fails(i) /\ messages' = Revert(messages, sends[i])
          \/ LocatorDeliversEmpty]_vars

\* the widget is hidden after a visible period in which the stream delivered the
\* history, and the watcher has counted a reply without touching the list
HideShowWitness ==
  /\ ~isOpen /\ watchSub # NoChat /\ ~watchInit /\ unreadCount = 1
  /\ Len(messages) >= 2
  /\ \A k \in 1..Len(messages) : messages[k].id[1] = "doc"

\* the status write at the head of the console's queue settles and was not rejected
\* (a rejection leaves the store alone and ends as an unhandled rejection)
SelectCommits ==
  /\ cq # <<>> /\ Head(cq).op = "select" /\ cq' = Tail(cq)
  /\ ~uncaught' \/ chats' # chats

\* C24: Selection marks read.  When the status write queued by the selection of a
\* conversation listed as new commits, the conversation's status is read afterwards
\* and the write changes no other field of it (user, e-mail, last-message text and
\* timestamp), no other conversation and no message.
SelectionMarksRead ==
  [][SelectCommits =>
       LET c == Head(cq).ref
       IN /\ DOMAIN chats' = DOMAIN chats
          /\ chats'[c].status = "read"
          /\ chats'[c].lastMessage = chats[c].lastMessage
          /\ chats'[c].timestamp = chats[c].timestamp
          /\ chats'[c].userId = chats[c].userId
          /\ chats'[c].userEmail = chats[c].userEmail
          /\ \A x \in DOMAIN chats \ {c} : chats'[x] = chats[x]
          /\ msgs' = msgs]_vars

\* the operator selected the conversation after a send of the user marked it new
\* again, and the status write committed
SelectionMarksReadWitness ==
  /\ selectedChat = 1 /\ cq = <<>> /\ ~uncaught
  /\ 1 \in DOMAIN chats
  /\ chats[1].status = "read" /\ chats[1].lastMessage = <<"b">> /\ chats[1].timestamp > 3

\* a first-contact send whose conversation was created
Adopted(i) == sends[i].isNewChat /\ sends[i].chat # NoChat

\* C25: Adopted id survives a later failure.  When a write of a first-contact send
\* fails after its conversation was created, the rollback leaves the resolved
\* conversation id as it is (the created conversation's id when this send is the
\* only one that created a conversation), leaves the store as it is, so that the
\* conversation record remains, and queues no write (no cleanup, no retry).
AdoptedIdSurvives ==
  [][\A i \in Sent :
       (Fails(i) /\ Adopted(i)) =>
         /\ chatId' = chatId /\ chatId' # NoChat
         /\ (\A j \in Sent \ {i} : ~Adopted(j)) => chatId' = sends[i].chat
         /\ chats' = chats /\ msgs' = msgs
         /\ sends[i].chat \in DOMAIN chats'
         /\ wq' = Tail(wq)
         /\ Len(sends') = Len(sends)]_vars

\* the first-contact send created conversation 1 and then failed; the widget still
\* holds the id, the record is in the store and nothing of the send is pending
AdoptedIdSurvivesWitness ==
  /\ sends # <<>> /\ sends[1].pc = "failed" /\ sends[1].isNewChat /\ sends[1].chat = 1
  /\ chatId = 1 /\ 1 \in DOMAIN chats /\ wq = <<>>
  /\ \A k \in 1..Len(messages) : messages[k].id[1] # "temp"

\* the in-memory list holds the entry the Message Stream made of the document
Shown(d) == \E k \in 1..Len(messages) : messages[k].id = AsChatMessage(d).id

\* C26: Already-seen replies are not notified.  A callback of the Notification
\* Watcher never counts, and never raises the notice for, an operator message that
\* the Message Stream delivered while the widget was visible (the entry is in the
\* in-memory list, which a hidden widget does not extend).
SeenRepliesNotNotified ==
  [][WatcherDelivers =>
       \A d \in NewerThan(watchSub, watchCursor) \ watchSeen :
         (d.sender = "admin" /\ Shown(d)) =>
           /\ unreadCount' = unreadCount
           /\ toasts' = <<>>]_vars

\* the message documents send i created that the store holds
Persisted(i) ==
  {d \in msgs : \E k \in 1..Len(sends[i].made) :
      sends[i].made[k].kind \in {"user", "system"} /\ sends[i].made[k].at = d.timestamp}

\* C27: A failed send persists nothing.  Once every write of a send that ended in
\* its failure path has settled, the store holds none of the message documents of
\* that send (neither its end-user message nor its auto-reply).
FailedSendPersistsNothing ==
  \A i \in Sent : (sends[i].pc = "failed" /\ sends[i].left = 0) => Persisted(i) = {}

\* C28: No orphan messages.  In every reachable state of the store every message
\* document lies under a conversation document that exists, whatever the
\* interleaving of the erasure of a conversation with sends of its user.
NoOrphanMessages == \A d \in msgs : d.chat \in DOMAIN chats

\* no send and no reply is in flight and every write succeeded
Quiescent ==
  /\ wq = <<>> /\ cq = <<>>
  /\ \A i \in Sent : sends[i].pc = "done"
  /\ \A i \in 1..Len(replies) : replies[i].pc = "done"

\* the end-user and operator messages of conversation c
Spoken(c) == {d \in MsgsOf(c) : d.sender \in {"user", "admin"}}

\* the last-message text a message stands for
Denormalized(d) == IF d.sender = "admin" THEN AdminLabel(d.text) ELSE d.text

\* C29: Last-message text matches the latest message.  In every quiescent state
\* the last-message text of a conversation is the text of its end-user or operator
\* message with the greatest creation instant ("Admin: " plus the text for an
\* operator message).
LastMessageMatchesLatest ==
  Quiescent =>
    \A c \in DOMAIN chats :
      \A d \in Spoken(c) :
        (\A e \in Spoken(c) : e.timestamp <= d.timestamp) =>
          chats[c].lastMessage = Denormalized(d)

\* users signing in and out of one widget instance while the operator replies to the
\* conversation of u1
NextIdentity ==
  \/ \E u \in Users : SignIn(u)
  \/ SignOut
  \/ LocatorSnapshot
  \/ WatcherSnapshot
  \/ handleSupportIconClick
  \/ DirectorySnapshot
  \/ \E c \in ChatIds : handleSelectChat(c)
  \/ SelectMarked
  \/ \E raw \in Inputs : handleSendReply(raw)
  \/ ReplyAdded
  \/ ReplyUpdated

SpecIdentity == InitReturning /\ [][NextIdentity]_vars

\* C30: Unread Counter is per identity.  The counter counts operator messages of
\* the conversation of the user signed in: it never exceeds their number, so it is 0
\* for a user who has no conversation, whoever was signed in before.
UnreadPerIdentity ==
  user # None =>
    unreadCount <= Cardinality({d \in msgs : d.sender = "admin" /\ d.chat \in ChatsOf(user)})

====
